---- MODULE Spec2Model ----
(***************************************************************************)
(* Cost allocation and settlement engine of the trip planner.              *)
(*                                                                         *)
(* The state is the content of the PostgreSQL tables the engine touches    *)
(* (users, events, rsvps, event_costs, payments) plus the position and the *)
(* local variables of every running recalculateEventCosts() call.  Every   *)
(* `await query(...)` of the code is one atomic database statement and     *)
(* one step of the model.  Money is counted in cents: total_cost, amount   *)
(* are DECIMAL(10, 2) columns.                                             *)
(***************************************************************************)
EXTENDS Integers, FiniteSets, Sequences, TLC

\* ------------------------------------------------------------- bounds
NumUsers == 3
NumEvents == 2
MaxTasks == 2
MaxPayments == 2
MaxRequests == 2
MaxTokens == 3

Users == 1..NumUsers
Events == 1..NumEvents
Tasks == 1..MaxTasks
PaymentIds == 1..MaxPayments
TokenIds == 1..MaxTokens

\* ------------------------------------------------------------- schema
TripStatuses == {"invited", "confirmed", "declined", "maybe"}
RsvpStatuses == {"pending", "confirmed", "declined", "maybe"}
SplitTypes == {"even", "custom", "fixed"}
PaymentStatuses == {"pending", "confirmed", "rejected"}

\* Inputs the request handlers are driven with.  Every query of the engine
\* compares a status with 'confirmed' only, so one non-confirmed value stands
\* for the others.
TripInputs == {"confirmed", "declined"}
\* the participants whose trip status is changed: the first guest (the groom,
\* when there is one) and one other
TripUsers == {1, 2}
\* the event the requests are about; the others only hold manual rows
StudiedEvents == {1}
RsvpInputs == {"confirmed", "declined"}
\* the participants an admin bills by hand and who report payments; the
\* others owe and pay nothing
BilledUsers == {1, 2}
\* the events an admin bills by hand in the ledger
BilledEvents == {1, 2}
\* total_cost values in cents: 0 and $99.25 (its halves and thirds are not
\* whole cents); $120.00 (divisible by 1..6) where rounding is not studied.
CostInputs == {0, 9925}
RoundCosts == {12000}
\* amounts an admin types into the manual cost form, payment amounts reported
ManualAmounts == {5000}
PaymentAmounts == {3000, 8000}

VARIABLES
  users,        \* users table: id -> [trip_status, is_groom]
  events,       \* events table: id -> [total_cost, split_type, is_mandatory, exclude_groom]
  rsvps,        \* rsvps table: event id -> user id -> status, "none" when no row
  event_costs,  \* event_costs table: set of [event_id, user_id, amount, notes]
  payments,     \* payments table: set of [id, user_id, amount, status]
  tasks,        \* running recalculateEventCosts() calls
  settled,      \* history: events whose rows were last written by a finished run
  runs,         \* history: finished runs of an event in a row since the last change
  firstRows,    \* history: the event's rows after the first run of that row of runs
  awaiting,     \* history: events whose confirmed set a trip-status update changed
                \*          and for which no recalculation was started since; at
                \*          process start, the events whose rows were off
  requests,     \* history: RSVP requests handled where their number is bounded,
                \*          and how many of them changed an answer
  is_admin,       \* users.is_admin: id -> BOOLEAN, FALSE when no row
  guest_list,     \* guest_list table: id -> [is_admin, is_groom, claimed_by];
                  \*   history: accounts, the users rows inserted for the entry
  refresh_tokens, \* refresh_tokens table: set of [id, user_id, revoked, expired];
                  \*   history: parent, the token whose refresh issued the row
  access_tokens,  \* the access tokens signed so far: set of [userId, isAdmin]
  calls           \* AuthService.register and AuthService.refresh calls under way

identity == <<is_admin, guest_list, refresh_tokens, access_tokens, calls>>
vars == <<users, events, rsvps, event_costs, payments, tasks,
          settled, runs, firstRows, awaiting, requests, identity>>
store == <<users, events, rsvps, event_costs, payments>>

\* ------------------------------------------------------------- helpers
RECURSIVE SumAmounts(_)
\* SUM(amount) over a finite set of rows
SumAmounts(S) ==
  IF S = {} THEN 0
  ELSE LET r == CHOOSE x \in S : TRUE IN r.amount + SumAmounts(S \ {r})

NoNote == [kind |-> "none", dollars |-> 0, n |-> 0]
NullEvent == [total_cost |-> 0, split_type |-> "even",
              is_mandatory |-> FALSE, exclude_groom |-> FALSE]
\* no row with that id in events, no row with that id in users
NoEvent == [total_cost |-> 0, split_type |-> "none",
            is_mandatory |-> FALSE, exclude_groom |-> FALSE]
NoUser == [trip_status |-> "none", is_groom |-> FALSE]
\* queue: the events recalculateAllMandatoryCosts() still has to go through;
\* reply: what the request that made the call answered its caller;
\* grooms, known: the grooms when a set-groom request arrived, and whether
\* its id named a participant then
IdleTask == [pc |-> "idle", eventId |-> 0, event |-> NullEvent, paying |-> {},
             todo |-> {}, num |-> 0, den |-> 1, note |-> NoNote, groom |-> 0,
             departed |-> 0, remaining |-> {}, before |-> {},
             queue |-> {}, reply |-> "none", grooms |-> {}, known |-> TRUE]

\* DECIMAL(10, 2): PostgreSQL rounds the value num/den to the nearest cent,
\* halves away from zero (all values here are >= 0).
ToNumeric2(num, den) == (2 * num + den) \div (2 * den)

\* Number.prototype.toFixed(0) of an amount of cents, in whole dollars
toFixed0(cents) == (cents + 50) \div 100

RowsOf(e) == {r \in event_costs : r.event_id = e}
HasRow(e, u) == \E r \in event_costs : r.event_id = e /\ r.user_id = u

\* INSERT INTO event_costs is rejected: UNIQUE(event_id, user_id), or one of
\* the two foreign keys finds its row gone
rejectsInsert(e, u) == HasRow(e, u) \/ events[e] = NoEvent \/ users[u] = NoUser

\* ------------------------------------------------------------- queries
\* SELECT id FROM users WHERE trip_status = 'confirmed'
confirmedTripUsers == {u \in Users : users[u].trip_status = "confirmed"}

confirmedRsvpUsersMutant(e) == {u \in Users : rsvps[e][u] # "none"}

\* SELECT u.id FROM users u JOIN rsvps r ... WHERE r.status = 'confirmed'
confirmedRsvpUsers(e) == {u \in Users : rsvps[e][u] = "confirmed"}

\* SELECT id FROM users WHERE is_groom = true
groomRows == {u \in Users : users[u].is_groom}

\* recalculateEventCosts: the paying attendees of event e, read with the
\* event row ev loaded before
payingAttendees(e, ev) ==
  IF ev.is_mandatory
  THEN IF ev.exclude_groom
       THEN {u \in confirmedTripUsers : ~users[u].is_groom}
       ELSE confirmedTripUsers
  ELSE IF ev.exclude_groom
       THEN {u \in confirmedRsvpUsers(e) : ~users[u].is_groom}
       ELSE confirmedRsvpUsers(e)

allAttendeesMutant(e, ev) ==
  (IF ev.is_mandatory THEN confirmedTripUsers ELSE confirmedRsvpUsers(e)) \cup groomRows

\* recalculateEventCosts: all attendees, the groom included (fixed split)
allAttendees(e, ev) ==
  IF ev.is_mandatory THEN confirmedTripUsers ELSE confirmedRsvpUsers(e)

evenShareMutant(totalCost, n, excl) ==
  [num |-> totalCost, den |-> n + 1,
   note |-> IF excl
            THEN [kind |-> "evenCoversGroom", dollars |-> toFixed0(totalCost), n |-> n]
            ELSE [kind |-> "evenSplit", dollars |-> 0, n |-> 0]]

\* even split: perPersonCost = totalCost / payingAttendees.length, and its note
evenShare(totalCost, n, excl) ==
  [num |-> totalCost, den |-> n,
   note |-> IF excl
            THEN [kind |-> "evenCoversGroom", dollars |-> toFixed0(totalCost), n |-> n]
            ELSE [kind |-> "evenSplit", dollars |-> 0, n |-> 0]]

fixedAbsorbedShareMutant(totalCost, nAll, n) ==
  [num |-> totalCost, den |-> 1,
   note |-> [kind |-> "fixedCoversGroom", dollars |-> toFixed0(totalCost), n |-> 0]]

\* fixed split, groom excluded:
\* perPersonCost = (totalCost * allAttendees.length) / payingAttendees.length
fixedAbsorbedShare(totalCost, nAll, n) ==
  [num |-> totalCost * nAll, den |-> n,
   note |-> [kind |-> "fixedCoversGroom", dollars |-> toFixed0(totalCost), n |-> 0]]

\* fixed split, groom not excluded: perPersonCost = totalCost
fixedShare(totalCost) ==
  [num |-> totalCost, den |-> 1,
   note |-> [kind |-> "fixedPerPerson", dollars |-> toFixed0(totalCost), n |-> 0]]

GroomNote == [kind |-> "groomCovered", dollars |-> 0, n |-> 0]

\* ------------------------------------------------------------- history
Min(a, b) == IF a < b THEN a ELSE b

\* an attendance, groom or configuration change, or a manual override, of the
\* events in E ends their row of consecutive runs
Changed(E) ==
  /\ settled' = settled \ E
  /\ runs' = [e \in Events |-> IF e \in E THEN 0 ELSE runs[e]]
  /\ firstRows' = [e \in Events |-> IF e \in E THEN {} ELSE firstRows[e]]

\* ------------------------------------------------------------- engine
Running(t) == tasks[t].pc \notin {"idle", "done", "failed"}
Quiescent == \A t \in Tasks : ~Running(t)
FreeSlots == {t \in Tasks : ~Running(t)}

\* a finished call keeps only what it was called for
Ended(t, how) ==
  [IdleTask EXCEPT !.pc = how, !.eventId = tasks[t].eventId,
                   !.departed = tasks[t].departed, !.remaining = tasks[t].remaining,
                   !.reply = tasks[t].reply]

\* the call returns normally; rows is the event's row set it leaves behind.
\* Inside recalculateAllMandatoryCosts() the loop goes on with another event
\* of its list (the query that made the list leaves the order open).
Return(t, rows) ==
  LET e == tasks[t].eventId IN
  /\ IF tasks[t].queue = {}
     THEN tasks' = [tasks EXCEPT ![t] = Ended(t, "done")]
     ELSE \E next \in tasks[t].queue :
            tasks' = [tasks EXCEPT ![t] =
                        [IdleTask EXCEPT !.pc = "loadEvent", !.eventId = next,
                                         !.queue = tasks[t].queue \ {next},
                                         !.reply = tasks[t].reply,
                                         !.before = RowsOf(next)]]
  /\ settled' = settled \cup {e}
  /\ runs' = [runs EXCEPT ![e] = Min(runs[e] + 1, 2)]
  /\ firstRows' = [firstRows EXCEPT ![e] = IF runs[e] = 0 THEN rows ELSE firstRows[e]]

\* the failure reaches the caller of the triggering request
ThrowMutant(t) ==
  LET e == tasks[t].eventId IN
  /\ tasks' = [tasks EXCEPT ![t] = [Ended(t, "failed") EXCEPT !.reply = "error"]]
  /\ settled' = settled \ {e}
  /\ UNCHANGED <<runs, firstRows>>

\* a statement is rejected by the database: the promise rejects and the
\* caller's .catch() swallows it
Throw(t) ==
  LET e == tasks[t].eventId IN
  /\ tasks' = [tasks EXCEPT ![t] = Ended(t, "failed")]
  /\ settled' = settled \ {e}
  /\ UNCHANGED <<runs, firstRows>>

\* recalculateEventCosts(eventId) is called: it runs up to its first await
Dispatch(e, dep, rem) ==
  LET t == CHOOSE x \in FreeSlots : \A y \in FreeSlots : x <= y IN
  /\ FreeSlots # {}
  /\ tasks' = [tasks EXCEPT ![t] =
                 [IdleTask EXCEPT !.pc = "loadEvent", !.eventId = e,
                                  !.departed = dep, !.remaining = rem,
                                  !.before = RowsOf(e), !.reply = "ok"]]
  /\ awaiting' = awaiting \ {e}

skipsEventMutant(ev) == ev.total_cost = 0

skipsEventCustomOnly(ev) == ev.split_type = "custom"

\* lines 24-26: a missing event, custom and zero-cost events are left alone
skipsEvent(ev) == ev = NoEvent \/ ev.split_type = "custom" \/ ev.total_cost = 0

\* lines 19-26: load the event; custom and zero-cost events return at once
LoadEvent(t) ==
  LET e == tasks[t].eventId
      ev == events[e] IN
  /\ tasks[t].pc = "loadEvent"
  /\ IF skipsEvent(ev)
     THEN Return(t, RowsOf(e))
     ELSE /\ tasks' = [tasks EXCEPT ![t].pc = "selectPaying", ![t].event = ev]
          /\ UNCHANGED <<settled, runs, firstRows>>
  /\ UNCHANGED <<identity, store, awaiting, requests>>

\* lines 28-54: read the paying attendees
SelectPaying(t) ==
  LET e == tasks[t].eventId IN
  /\ tasks[t].pc = "selectPaying"
  /\ tasks' = [tasks EXCEPT ![t].pc = "deleteCosts",
                            ![t].paying = payingAttendees(e, tasks[t].event)]
  /\ UNCHANGED <<identity, store, settled, runs, firstRows, awaiting, requests>>

deletedRowsMutant(e) == {}

\* the rows DELETE FROM event_costs WHERE event_id = $1 removes
deletedRows(e) == RowsOf(e)

\* lines 56-94: clear the event's rows; stop when nobody pays; otherwise
\* compute perPersonCost and note (fixed/exclude_groom needs one more query)
DeleteCosts(t) ==
  LET e == tasks[t].eventId
      ev == tasks[t].event
      n == Cardinality(tasks[t].paying)
      share == IF ev.split_type = "fixed"
               THEN fixedShare(ev.total_cost)
               ELSE evenShare(ev.total_cost, n, ev.exclude_groom) IN
  /\ tasks[t].pc = "deleteCosts"
  /\ event_costs' = event_costs \ deletedRows(e)
  /\ IF n = 0
     THEN Return(t, RowsOf(e) \ deletedRows(e))
     ELSE /\ IF ev.split_type = "fixed" /\ ev.exclude_groom
             THEN tasks' = [tasks EXCEPT ![t].pc = "selectAll"]
             ELSE tasks' = [tasks EXCEPT ![t].pc = "insertCosts",
                                         ![t].todo = tasks[t].paying,
                                         ![t].num = share.num, ![t].den = share.den,
                                         ![t].note = share.note]
          /\ settled' = settled \ {e}
          /\ UNCHANGED <<runs, firstRows>>
  /\ UNCHANGED <<identity, users, events, rsvps, payments, awaiting, requests>>

\* lines 68-83: read all attendees and compute the absorbed rate
SelectAll(t) ==
  LET e == tasks[t].eventId
      ev == tasks[t].event
      share == fixedAbsorbedShare(ev.total_cost,
                                  Cardinality(allAttendees(e, ev)),
                                  Cardinality(tasks[t].paying)) IN
  /\ tasks[t].pc = "selectAll"
  /\ tasks' = [tasks EXCEPT ![t].pc = "insertCosts", ![t].todo = tasks[t].paying,
                            ![t].num = share.num, ![t].den = share.den,
                            ![t].note = share.note]
  /\ UNCHANGED <<identity, store, settled, runs, firstRows, awaiting, requests>>

\* lines 96-101: one INSERT of the loop.  UNIQUE(event_id, user_id) rejects a
\* second row of the same participant.  The order of the loop is the order
\* the rows came back in, which the query leaves open.
InsertCost(t) ==
  LET e == tasks[t].eventId
      ev == tasks[t].event IN
  /\ tasks[t].pc = "insertCosts"
  /\ \E u \in tasks[t].todo :
       LET row == [event_id |-> e, user_id |-> u,
                   amount |-> ToNumeric2(tasks[t].num, tasks[t].den),
                   notes |-> tasks[t].note]
           rest == tasks[t].todo \ {u} IN
       IF rejectsInsert(e, u)
       THEN Throw(t) /\ UNCHANGED event_costs
       ELSE /\ event_costs' = event_costs \cup {row}
            /\ IF rest = {} /\ ~ev.exclude_groom
               THEN Return(t, RowsOf(e) \cup {row})
               ELSE /\ tasks' = [tasks EXCEPT ![t].todo = rest,
                                   ![t].pc = IF rest = {} THEN "selectGroom"
                                             ELSE "insertCosts"]
                    /\ settled' = settled \ {e}
                    /\ UNCHANGED <<runs, firstRows>>
  /\ UNCHANGED <<identity, users, events, rsvps, payments, awaiting, requests>>

\* lines 104-107: look the groom up; queryOne() keeps the first row
SelectGroom(t) ==
  LET e == tasks[t].eventId
      ev == tasks[t].event IN
  /\ tasks[t].pc = "selectGroom"
  /\ IF groomRows = {}
     THEN Return(t, RowsOf(e))
     ELSE /\ \E g \in groomRows :
               tasks' = [tasks EXCEPT ![t].groom = g,
                           ![t].pc = IF ev.is_mandatory THEN "insertGroom"
                                     ELSE "selectGroomRsvp"]
          /\ UNCHANGED <<settled, runs, firstRows>>
  /\ UNCHANGED <<identity, store, awaiting, requests>>

\* lines 108-114: optional event: the groom attends when his RSVP is confirmed
SelectGroomRsvp(t) ==
  LET e == tasks[t].eventId IN
  /\ tasks[t].pc = "selectGroomRsvp"
  /\ IF rsvps[e][tasks[t].groom] = "confirmed"
     THEN /\ tasks' = [tasks EXCEPT ![t].pc = "insertGroom"]
          /\ UNCHANGED <<settled, runs, firstRows>>
     ELSE Return(t, RowsOf(e))
  /\ UNCHANGED <<identity, store, awaiting, requests>>

\* lines 115-120: the groom's $0 row
InsertGroom(t) ==
  LET e == tasks[t].eventId
      row == [event_id |-> e, user_id |-> tasks[t].groom, amount |-> 0,
              notes |-> GroomNote] IN
  /\ tasks[t].pc = "insertGroom"
  /\ IF rejectsInsert(e, tasks[t].groom)
     THEN Throw(t) /\ UNCHANGED event_costs
     ELSE /\ event_costs' = event_costs \cup {row}
          /\ Return(t, RowsOf(e) \cup {row})
  /\ UNCHANGED <<identity, users, events, rsvps, payments, awaiting, requests>>

\* recalculateAllMandatoryCosts() is called: it runs up to its first await
DispatchAll ==
  LET t == CHOOSE x \in FreeSlots : \A y \in FreeSlots : x <= y IN
  /\ FreeSlots # {}
  /\ tasks' = [tasks EXCEPT ![t] =
                 [IdleTask EXCEPT !.pc = "selectMandatory", !.reply = "ok"]]

\* SELECT id FROM events WHERE is_mandatory = true
\*   AND split_type IN ('even', 'fixed') AND total_cost > 0
mandatoryEvents ==
  {e \in Events : /\ events[e].is_mandatory
                   /\ events[e].split_type \in {"even", "fixed"}
                   /\ events[e].total_cost > 0}

\* recalculateAllMandatoryCosts, lines 132-136: read the list of events and
\* call recalculateEventCosts for one of them; with an empty list it is over
SelectMandatory(t) ==
  /\ tasks[t].pc = "selectMandatory"
  /\ IF mandatoryEvents = {}
     THEN tasks' = [tasks EXCEPT ![t] = Ended(t, "done")]
     ELSE \E first \in mandatoryEvents :
            tasks' = [tasks EXCEPT ![t] =
                        [IdleTask EXCEPT !.pc = "loadEvent", !.eventId = first,
                                         !.queue = mandatoryEvents \ {first},
                                         !.reply = tasks[t].reply,
                                         !.before = RowsOf(first)]]
  /\ UNCHANGED <<identity, store, settled, runs, firstRows, awaiting, requests>>

\* any query of a running recalculation fails (connection lost, timeout):
\* query() throws, nothing is written by that statement
StoreFail(t) ==
  /\ tasks[t].pc \in {"selectMandatory", "selectStartup", "loadEvent", "selectPaying", "deleteCosts",
                      "selectAll", "insertCost", "selectGroom", "selectGroomRsvp",
                      "insertGroom"}
  /\ Throw(t)
  /\ UNCHANGED <<identity, store, awaiting, requests>>

recalculateEventCosts(t) ==
  \/ LoadEvent(t)
  \/ SelectPaying(t)
  \/ DeleteCosts(t)
  \/ SelectAll(t)
  \/ InsertCost(t)
  \/ SelectGroom(t)
  \/ SelectGroomRsvp(t)
  \/ InsertGroom(t)

\* the rows an undisturbed run of recalculateEventCosts(e) leaves for an
\* even/fixed event with a cost, on the current users and rsvps
computedRows(e) ==
  LET ev == events[e]
      paying == payingAttendees(e, ev)
      n == Cardinality(paying)
      share == IF ev.split_type = "fixed"
               THEN IF ev.exclude_groom
                    THEN fixedAbsorbedShare(ev.total_cost,
                                            Cardinality(allAttendees(e, ev)), n)
                    ELSE fixedShare(ev.total_cost)
               ELSE evenShare(ev.total_cost, n, ev.exclude_groom)
      grooms == IF ev.exclude_groom
                THEN {g \in groomRows : ev.is_mandatory \/ rsvps[e][g] = "confirmed"}
                ELSE {} IN
  IF n = 0 THEN {}
  ELSE {[event_id |-> e, user_id |-> u, amount |-> ToNumeric2(share.num, share.den),
         notes |-> share.note] : u \in paying}
       \cup {[event_id |-> e, user_id |-> g, amount |-> 0, notes |-> GroomNote] :
             g \in grooms}

\* only the mandatory events are recalculated at start
startupEventsMutant ==
  {e \in Events : /\ events[e].is_mandatory
                   /\ events[e].split_type \in {"even", "fixed"}
                   /\ events[e].total_cost > 0}

\* start(): every even/fixed event with a cost is recalculated before the
\* server listens
startupEvents ==
  {e \in Events : events[e].split_type \in {"even", "fixed"} /\ events[e].total_cost > 0}

startupRows == UNION {computedRows(e) : e \in startupEvents}

\* start(), lines 103-108: read the list of events and await
\* recalculateEventCosts for one of them; with an empty list go on to listen
SelectStartup(t) ==
  /\ tasks[t].pc = "selectStartup"
  /\ IF startupEvents = {}
     THEN tasks' = [tasks EXCEPT ![t] = Ended(t, "done")]
     ELSE \E first \in startupEvents :
            tasks' = [tasks EXCEPT ![t] =
                        [IdleTask EXCEPT !.pc = "loadEvent", !.eventId = first,
                                         !.queue = startupEvents \ {first},
                                         !.before = RowsOf(first)]]
  /\ UNCHANGED <<identity, store, settled, runs, firstRows, awaiting, requests>>

\* ------------------------------------------------------------- requests
\* PUT /api/events/:eventId/rsvp: upsert the caller's RSVP, then call
\* recalculateEventCosts without awaiting it.  An unknown event is a 404 and
\* mandatory events are refused.
RsvpUpdate(u, e, status) ==
  LET ev == events[e]
      before == payingAttendees(e, ev)
      share == ToNumeric2(ev.total_cost, Cardinality(before))
      \* a payer leaves an optional even-split event whose n >= 2 payers hold T/n
      leaves == /\ ev.split_type = "even" /\ ev.total_cost > 0
                /\ u \in before /\ status # "confirmed"
                /\ Cardinality(before) >= 2
                /\ \A p \in before :
                     \E r \in RowsOf(e) : r.user_id = p /\ r.amount = share IN
  /\ ev # NoEvent
  /\ ~ev.is_mandatory
  /\ rsvps' = [rsvps EXCEPT ![e][u] = status]
  /\ Dispatch(e, IF leaves THEN u ELSE 0, IF leaves THEN before \ {u} ELSE {})
  /\ IF rsvps[e][u] # status
     THEN Changed({e})
     ELSE UNCHANGED <<settled, runs, firstRows>>
  /\ UNCHANGED <<identity, users, events, event_costs, payments>>

\* PUT /api/users/:id/trip-status: update the status; nothing else is done
TripStatusUpdate(u, status) ==
  /\ users' = [users EXCEPT ![u].trip_status = status]
  /\ IF users[u].trip_status # status
     THEN /\ Changed({e \in Events : events[e].is_mandatory})
          /\ awaiting' = awaiting \cup {e \in Events : events[e].is_mandatory}
     ELSE UNCHANGED <<settled, runs, firstRows, awaiting>>
  /\ UNCHANGED <<identity, events, rsvps, event_costs, payments, tasks, requests>>

\* the event forms an admin submits: the event saved again as it is
EventInputs(e) == {events[e]}

\* PUT /api/admin/events/:id: 404 when there is no such event; write the
\* event, then call recalculateEventCosts without awaiting it when the split
\* is not custom and the cost is > 0
AdminUpdateEvent(e, data) ==
  /\ events[e] # NoEvent
  /\ events' = [events EXCEPT ![e] = data]
  /\ IF data.split_type # "custom" /\ data.total_cost > 0
     THEN Dispatch(e, 0, {})
     ELSE UNCHANGED <<tasks, awaiting>>
  /\ IF events[e] # data
     THEN Changed({e})
     ELSE UNCHANGED <<settled, runs, firstRows>>
  /\ UNCHANGED <<identity, users, rsvps, event_costs, payments>>

\* an event id nothing has used yet: ids are fresh UUIDs
UnusedId(e) ==
  /\ events[e] = NoEvent
  /\ \A t \in Tasks : tasks[t].eventId # e /\ e \notin tasks[t].queue

\* POST /api/admin/events: insert the event, then call recalculateEventCosts
\* without awaiting it when the split is not custom and the cost is > 0
AdminCreateEvent(e, data) ==
  /\ UnusedId(e)
  /\ events' = [events EXCEPT ![e] = data]
  /\ IF data.split_type # "custom" /\ data.total_cost > 0
     THEN Dispatch(e, 0, {})
     ELSE UNCHANGED <<tasks, awaiting>>
  /\ Changed({e})
  /\ UNCHANGED <<identity, users, rsvps, event_costs, payments>>

\* DELETE /api/admin/events/:id: 404 when there is no such event; the event
\* row goes, and with it (ON DELETE CASCADE) its rsvps and event_costs
AdminDeleteEvent(e) ==
  /\ events[e] # NoEvent
  /\ events' = [events EXCEPT ![e] = NoEvent]
  /\ rsvps' = [rsvps EXCEPT ![e] = [u \in Users |-> "none"]]
  /\ event_costs' = event_costs \ RowsOf(e)
  /\ Changed({e})
  /\ UNCHANGED <<identity, users, payments, tasks, awaiting>>

\* POST /api/admin/events/:id/costs/calculate, lines 216-218: the paying
\* attendees are read from users alone
calculatePaying(ev) ==
  IF ev.exclude_groom
  THEN {u \in Users : users[u].trip_status = "confirmed" /\ ~users[u].is_groom}
  ELSE {u \in Users : users[u].trip_status = "confirmed"}

\* lines 224-245: perPersonCost and its note
calculateShare(ev, n) ==
  IF ev.split_type = "fixed"
  THEN IF ev.exclude_groom
       THEN [num |-> ev.total_cost * Cardinality(confirmedTripUsers), den |-> n,
             note |-> [kind |-> "fixedCoversGroom",
                       dollars |-> toFixed0(ev.total_cost), n |-> 0]]
       ELSE [num |-> ev.total_cost, den |-> 1,
             note |-> [kind |-> "fixedPerPerson",
                       dollars |-> toFixed0(ev.total_cost), n |-> 0]]
  ELSE [num |-> ev.total_cost, den |-> n,
        note |-> IF ev.exclude_groom
                 THEN [kind |-> "evenGuestsCoverGroom",
                       dollars |-> toFixed0(ev.total_cost), n |-> n]
                 ELSE [kind |-> "evenSplit", dollars |-> 0, n |-> 0]]

\* lines 247-270: the rows the route inserts for event e; groom is the first
\* row of SELECT * FROM users WHERE is_groom = true, 0 when there is none
calculatedRows(e, groom) ==
  LET ev == events[e]
      paying == calculatePaying(ev)
      share == calculateShare(ev, Cardinality(paying)) IN
  {[event_id |-> e, user_id |-> u, amount |-> ToNumeric2(share.num, share.den),
    notes |-> share.note] : u \in paying}
  \cup (IF ev.exclude_groom /\ groom # 0
        THEN {[event_id |-> e, user_id |-> groom, amount |-> 0, notes |-> GroomNote]}
        ELSE {})

\* POST /api/admin/events/:id/costs/calculate: 404 without the event, 400
\* without a confirmed paying attendee; else the event's rows are replaced
AdminCalculateCosts(e) ==
  /\ events[e] # NoEvent
  /\ calculatePaying(events[e]) # {}
  /\ \E groom \in (IF groomRows = {} THEN {0} ELSE groomRows) :
       event_costs' = (event_costs \ RowsOf(e)) \cup calculatedRows(e, groom)
  /\ Changed({e})
  /\ UNCHANGED <<identity, users, events, rsvps, payments, tasks, awaiting>>

\* the cost lists an admin submits: one amount for each of some participants
CostLists == UNION {[S -> ManualAmounts] : S \in SUBSET BilledUsers}

\* PUT /api/admin/events/:id/costs: replace the event's rows by the list
AdminSetCosts(e, costs) ==
  /\ event_costs' = (event_costs \ RowsOf(e)) \cup
       {[event_id |-> e, user_id |-> u, amount |-> costs[u], notes |-> NoNote] :
        u \in DOMAIN costs}
  /\ Changed({e})
  /\ UNCHANGED <<identity, users, events, rsvps, payments, tasks, awaiting>>

\* the cost lists as they are submitted: an array, in which a participant may
\* be named twice
CostArrays ==
  UNION {[1..n -> [user_id : BilledUsers, amount : ManualAmounts]] : n \in 1..2}

RECURSIVE insertCosts(_, _, _)
\* PUT /api/admin/events/:id/costs, lines 184-190: the INSERTs of the list one
\* after the other on the rows so far, up to the first that is rejected
\* (UNIQUE(event_id, user_id) or a foreign key)
insertCosts(e, costs, rows) ==
  IF costs = <<>> THEN [rows |-> rows, ok |-> TRUE]
  ELSE LET cost == Head(costs) IN
       IF \/ \E r \in rows : r.event_id = e /\ r.user_id = cost.user_id
          \/ events[e] = NoEvent
          \/ users[cost.user_id] = NoUser
       THEN [rows |-> rows, ok |-> FALSE]
       ELSE insertCosts(e, Tail(costs),
                        rows \cup {[event_id |-> e, user_id |-> cost.user_id,
                                    amount |-> cost.amount, notes |-> NoNote]})

\* PUT /api/admin/events/:id/costs with the array costs: DELETE the event's
\* rows, then the INSERTs; a rejected INSERT ends the request with an error.
\* The request's outcome is kept in a task slot.
AdminSetCostsArray(e, costs) ==
  LET t == CHOOSE x \in FreeSlots : \A y \in FreeSlots : x <= y
      result == insertCosts(e, costs, event_costs \ RowsOf(e)) IN
  /\ FreeSlots # {}
  /\ event_costs' = result.rows
  /\ tasks' = [tasks EXCEPT ![t] =
                 [IdleTask EXCEPT !.pc = IF result.ok THEN "done" ELSE "failed",
                                  !.eventId = e, !.before = RowsOf(e),
                                  !.reply = IF result.ok THEN "ok" ELSE "error"]]
  /\ Changed({e})
  /\ UNCHANGED <<identity, users, events, rsvps, payments, awaiting>>

\* POST /api/payments: the payment is stored with the column default 'pending'
ReportPayment(u, amount) ==
  /\ \E id \in PaymentIds :
       /\ \A p \in payments : p.id # id
       /\ \A other \in PaymentIds : other < id => \E p \in payments : p.id = other
       /\ payments' = payments \cup
            {[id |-> id, user_id |-> u, amount |-> amount, status |-> "pending"]}
  /\ UNCHANGED <<identity, users, events, rsvps, event_costs, tasks,
                 settled, runs, firstRows, awaiting, requests>>

\* PUT /api/admin/payments/:id: set the payment's status
AdminUpdatePayment(id, status) ==
  /\ \E p \in payments :
       /\ p.id = id
       /\ payments' = (payments \ {p}) \cup {[p EXCEPT !.status = status]}
  /\ UNCHANGED <<identity, users, events, rsvps, event_costs, tasks,
                 settled, runs, firstRows, awaiting, requests>>

\* the guest list of seed.ts: the first guest is the groom and an admin, the
\* second an admin, the others neither
GuestList == [u \in Users |-> [is_groom |-> (u = 1), is_admin |-> (u <= 2)]]

\* no call: token is the refresh token a refresh presented, guest the entry a
\* registration matched, user the row either of them read or inserted, and
\* isAdmin, isGroom the flags of that row or of the matched entry
IdleCall == [pc |-> "idle", token |-> 0, guest |-> 0, user |-> 0,
             isAdmin |-> FALSE, isGroom |-> FALSE, reply |-> "none"]
FreeCalls == {t \in Tasks : calls[t].pc \in {"idle", "done", "failed"}}

\* uuid_generate_v4() of refresh_tokens.id: an id no row has
UnusedToken ==
  CHOOSE id \in TokenIds \cup {0} :
    /\ \A r \in refresh_tokens : r.id # id
    /\ \A x \in TokenIds : (\A r \in refresh_tokens : r.id # x) => id <= x \/ id = 0
    /\ id = 0 => \A x \in TokenIds : \E r \in refresh_tokens : r.id = x

\* AuthService.generateTokens: the access token carries the is_admin the
\* caller read, and the refresh token is stored unrevoked
generateTokens(u, admin, parent) ==
  /\ UnusedToken # 0
  /\ access_tokens' = access_tokens \cup {[userId |-> u, isAdmin |-> admin]}
  /\ refresh_tokens' = refresh_tokens \cup
       {[id |-> UnusedToken, user_id |-> u, revoked |-> FALSE, expired |-> FALSE,
         parent |-> parent]}

\* AuthService.register when no other registration is under way: a guest
\* who has no account yet gets one, with trip_status 'confirmed' and the
\* flags of the guest list entry, the entry is linked to the account and the
\* tokens are issued; then recalculateAllMandatoryCosts is called without
\* awaiting it
Register(u) ==
  /\ users[u] = NoUser
  /\ guest_list[u].claimed_by = 0
  /\ users' = [users EXCEPT ![u] = [trip_status |-> "confirmed",
                                    is_groom |-> guest_list[u].is_groom]]
  /\ is_admin' = [is_admin EXCEPT ![u] = guest_list[u].is_admin]
  /\ guest_list' = [guest_list EXCEPT ![u].claimed_by = u, ![u].accounts = {u}]
  /\ generateTokens(u, guest_list[u].is_admin, 0)
  /\ DispatchAll
  /\ Changed({e \in Events : events[e].is_mandatory})
  /\ UNCHANGED <<events, rsvps, event_costs, payments, awaiting, requests, calls>>

\* DELETE /api/admin/users/:id: the user row goes, and with it (ON DELETE
\* CASCADE) the user's rsvps, event_costs, payments and refresh tokens; the
\* guest list entry is free again (ON DELETE SET NULL).  The access tokens
\* signed for the user stay valid.
AdminDeleteUser(u) ==
  /\ users[u] # NoUser
  /\ users' = [users EXCEPT ![u] = NoUser]
  /\ is_admin' = [is_admin EXCEPT ![u] = FALSE]
  /\ rsvps' = [e \in Events |-> [rsvps[e] EXCEPT ![u] = "none"]]
  /\ event_costs' = {r \in event_costs : r.user_id # u}
  /\ payments' = {p \in payments : p.user_id # u}
  /\ refresh_tokens' = {r \in refresh_tokens : r.user_id # u}
  /\ guest_list' = [g \in Users |->
                     [guest_list[g] EXCEPT
                        !.claimed_by = IF @ = u THEN 0 ELSE @,
                        !.accounts = @ \ {u}]]
  /\ Changed(Events)
  /\ UNCHANGED <<events, tasks, awaiting, requests, access_tokens, calls>>

\* PUT /api/admin/users/:id/groom, first statement.  With is_groom = true:
\* UPDATE users SET is_groom = false WHERE is_groom = true, and the handler
\* goes on to its second statement.  With is_groom = false there is the one
\* statement UPDATE users SET is_groom = false WHERE id = $2.
AdminSetGroom(id, is_groom) ==
  LET t == CHOOSE x \in FreeSlots : \A y \in FreeSlots : x <= y IN
  /\ IF is_groom
     THEN /\ FreeSlots # {}
          /\ users' = [u \in Users |-> [users[u] EXCEPT !.is_groom = FALSE]]
          /\ tasks' = [tasks EXCEPT ![t] =
                         [IdleTask EXCEPT !.pc = "updateGroom", !.groom = id,
                                          !.grooms = groomRows,
                                          !.known = (users[id] # NoUser)]]
     ELSE /\ users[id] # NoUser
          /\ users' = [users EXCEPT ![id].is_groom = FALSE]
          /\ UNCHANGED tasks
  /\ IF users' # users THEN Changed(Events) ELSE UNCHANGED <<settled, runs, firstRows>>
  /\ UNCHANGED <<identity, events, rsvps, event_costs, payments, awaiting, requests>>

\* PUT /api/admin/users/:id/groom, second statement: UPDATE users SET
\* is_groom = true WHERE id = $2; 404 when no row was updated
UpdateGroom(t) ==
  LET id == tasks[t].groom IN
  /\ tasks[t].pc = "updateGroom"
  /\ IF users[id] = NoUser
     THEN /\ tasks' = [tasks EXCEPT ![t] = [IdleTask EXCEPT !.pc = "failed", !.groom = id,
                                                            !.grooms = tasks[t].grooms,
                                                            !.known = tasks[t].known,
                                                            !.reply = "error"]]
          /\ UNCHANGED <<users, settled, runs, firstRows>>
     ELSE /\ users' = [users EXCEPT ![id].is_groom = TRUE]
          /\ tasks' = [tasks EXCEPT ![t] = [IdleTask EXCEPT !.pc = "done", !.groom = id,
                                                            !.reply = "ok"]]
          /\ Changed(Events)
  /\ UNCHANGED <<identity, events, rsvps, event_costs, payments, awaiting, requests>>

\* ------------------------------------------------------------- registration
\* POST /api/auth/register, AuthService.register up to its first write: the
\* name matches guest list entry g; 400 'This guest has already registered'
\* when the entry is claimed.  Every request brings a username and an email
\* of its own, so the SELECT for an existing account finds none.
RegisterMatch(g) ==
  LET t == CHOOSE x \in FreeCalls : \A y \in FreeCalls : x <= y IN
  /\ FreeCalls # {}
  /\ calls' = [calls EXCEPT ![t] =
       IF guest_list[g].claimed_by # 0
       THEN [IdleCall EXCEPT !.pc = "failed", !.guest = g, !.reply = "error"]
       ELSE [IdleCall EXCEPT !.pc = "insertUser", !.guest = g,
               !.isAdmin = guest_list[g].is_admin,
               !.isGroom = guest_list[g].is_groom]]
  /\ UNCHANGED <<store, tasks, settled, runs, firstRows, awaiting, requests,
                 is_admin, guest_list, refresh_tokens, access_tokens>>

\* uuid_generate_v4() of users.id: an id no row has, 0 when the ids are used up
UnusedUser ==
  CHOOSE id \in Users \cup {0} :
    IF \A u \in Users : users[u] # NoUser THEN id = 0
    ELSE /\ id # 0 /\ users[id] = NoUser
         /\ \A u \in Users : users[u] = NoUser => id <= u

\* AuthService.register: INSERT INTO users ... trip_status 'confirmed', with
\* the flags of the matched entry
RegisterInsert(t) ==
  LET id == UnusedUser IN
  /\ calls[t].pc = "insertUser"
  /\ id # 0
  /\ users' = [users EXCEPT ![id] = [trip_status |-> "confirmed",
                                     is_groom |-> calls[t].isGroom]]
  /\ is_admin' = [is_admin EXCEPT ![id] = calls[t].isAdmin]
  /\ guest_list' = [guest_list EXCEPT ![calls[t].guest].accounts = @ \cup {id}]
  /\ calls' = [calls EXCEPT ![t] = [@ EXCEPT !.pc = "linkGuest", !.user = id]]
  /\ Changed({e \in Events : events[e].is_mandatory})
  /\ UNCHANGED <<events, rsvps, event_costs, payments, tasks, awaiting, requests,
                 refresh_tokens, access_tokens>>

\* AuthService.register: UPDATE guest_list SET claimed_by = $1 WHERE id = $2
RegisterLink(t) ==
  /\ calls[t].pc = "linkGuest"
  /\ guest_list' = [guest_list EXCEPT ![calls[t].guest].claimed_by = calls[t].user]
  /\ calls' = [calls EXCEPT ![t].pc = "registerTokens"]
  /\ UNCHANGED <<store, tasks, settled, runs, firstRows, awaiting, requests,
                 is_admin, refresh_tokens, access_tokens>>

\* AuthService.register: generateTokens(user), then
\* recalculateAllMandatoryCosts is called without awaiting it
RegisterGenerate(t) ==
  /\ calls[t].pc = "registerTokens"
  /\ generateTokens(calls[t].user, calls[t].isAdmin, 0)
  /\ DispatchAll
  /\ calls' = [calls EXCEPT ![t] = [@ EXCEPT !.pc = "done", !.reply = "ok"]]
  /\ UNCHANGED <<store, settled, runs, firstRows, awaiting, requests,
                 is_admin, guest_list>>

\* ------------------------------------------------------------- sessions
\* the slot a new call takes
NextCall == CHOOSE x \in FreeCalls : \A y \in FreeCalls : x <= y

\* AuthService.login: the user row is read and the tokens are issued for it
Login(u) ==
  /\ users[u] # NoUser
  /\ generateTokens(u, is_admin[u], 0)
  /\ UNCHANGED <<store, tasks, settled, runs, firstRows, awaiting, requests,
                 is_admin, guest_list, calls>>

\* the rows the first statement of AuthService.refresh selects: token_hash
\* matches, expires_at > NOW(), revoked_at IS NULL, and the user is there
validTokens(token) ==
  {r \in refresh_tokens : /\ r.id = token
                          /\ ~r.expired
                          /\ ~r.revoked
                          /\ users[r.user_id] # NoUser}

\* POST /api/auth/refresh, AuthService.refresh, first statement: 401 'Invalid
\* or expired refresh token' when no valid row has the hash
Refresh(token) ==
  /\ FreeCalls # {}
  /\ calls' = [calls EXCEPT ![NextCall] =
       IF validTokens(token) = {}
       THEN [IdleCall EXCEPT !.pc = "failed", !.token = token, !.reply = "error"]
       ELSE [IdleCall EXCEPT !.pc = "selectUser", !.token = token,
               !.user = (CHOOSE r \in validTokens(token) : TRUE).user_id]]
  /\ UNCHANGED <<store, tasks, settled, runs, firstRows, awaiting, requests,
                 is_admin, guest_list, refresh_tokens, access_tokens>>

\* AuthService.refresh, second statement: SELECT * FROM users WHERE id = $1;
\* 401 'User not found' without a row
RefreshSelectUser(t) ==
  /\ calls[t].pc = "selectUser"
  /\ calls' = [calls EXCEPT ![t] =
       IF users[calls[t].user] = NoUser
       THEN [@ EXCEPT !.pc = "failed", !.reply = "error"]
       ELSE [@ EXCEPT !.pc = "revokeToken", !.isAdmin = is_admin[calls[t].user]]]
  /\ UNCHANGED <<store, tasks, settled, runs, firstRows, awaiting, requests,
                 is_admin, guest_list, refresh_tokens, access_tokens>>

\* AuthService.refresh, third statement: UPDATE refresh_tokens SET
\* revoked_at = NOW() WHERE id = $1; the number of rows updated is not read
RefreshRevoke(t) ==
  /\ calls[t].pc = "revokeToken"
  /\ refresh_tokens' = {IF r.id = calls[t].token THEN [r EXCEPT !.revoked = TRUE] ELSE r :
                          r \in refresh_tokens}
  /\ calls' = [calls EXCEPT ![t].pc = "generateTokens"]
  /\ UNCHANGED <<store, tasks, settled, runs, firstRows, awaiting, requests,
                 is_admin, guest_list, access_tokens>>

\* AuthService.refresh, return this.generateTokens(user): the INSERT fails on
\* the foreign key when the user row has gone meanwhile
RefreshGenerate(t) ==
  /\ calls[t].pc = "generateTokens"
  /\ IF users[calls[t].user] = NoUser
     THEN /\ calls' = [calls EXCEPT ![t] = [@ EXCEPT !.pc = "failed", !.reply = "error"]]
          /\ access_tokens' = access_tokens \cup
               {[userId |-> calls[t].user, isAdmin |-> calls[t].isAdmin]}
          /\ UNCHANGED refresh_tokens
     ELSE /\ generateTokens(calls[t].user, calls[t].isAdmin, calls[t].token)
          /\ calls' = [calls EXCEPT ![t] = [@ EXCEPT !.pc = "done", !.reply = "ok"]]
  /\ UNCHANGED <<store, tasks, settled, runs, firstRows, awaiting, requests,
                 is_admin, guest_list>>

\* POST /api/auth/logout, AuthService.logout: UPDATE refresh_tokens SET
\* revoked_at = NOW() WHERE token_hash = $1
Logout(token) ==
  /\ \E r \in refresh_tokens : r.id = token /\ ~r.revoked
  /\ refresh_tokens' = {IF r.id = token THEN [r EXCEPT !.revoked = TRUE] ELSE r :
                          r \in refresh_tokens}
  /\ UNCHANGED <<store, tasks, settled, runs, firstRows, awaiting, requests,
                 is_admin, guest_list, access_tokens, calls>>

\* time passes: the seven days of a refresh token are over
ExpireToken(token) ==
  /\ \E r \in refresh_tokens : r.id = token /\ ~r.expired
  /\ refresh_tokens' = {IF r.id = token THEN [r EXCEPT !.expired = TRUE] ELSE r :
                          r \in refresh_tokens}
  /\ UNCHANGED <<store, tasks, settled, runs, firstRows, awaiting, requests,
                 is_admin, guest_list, access_tokens, calls>>

\* time passes: the fifteen minutes of an access token are over
ExpireAccess(caller) ==
  /\ caller \in access_tokens
  /\ access_tokens' = access_tokens \ {caller}
  /\ UNCHANGED <<store, tasks, settled, runs, firstRows, awaiting, requests,
                 is_admin, guest_list, refresh_tokens, calls>>

\* ------------------------------------------------------------- admins
\* authenticate, requireAdmin: the request carries an access token that was
\* signed and has not expired, and the isAdmin of its payload is true
requireAdmin(caller) == caller \in access_tokens /\ caller.isAdmin

\* PUT /api/admin/users/:id/admin as the route handles it: 400 'Cannot remove
\* your own admin status', else UPDATE users SET is_admin = $1 WHERE id = $2
\* (404 without a row)
AdminSetAdmin(caller, id, flag) ==
  /\ requireAdmin(caller)
  /\ ~(caller.userId = id /\ ~flag)
  /\ users[id] # NoUser
  /\ is_admin' = [is_admin EXCEPT ![id] = flag]
  /\ UNCHANGED <<store, tasks, settled, runs, firstRows, awaiting, requests,
                 guest_list, refresh_tokens, access_tokens, calls>>

\* DELETE /api/admin/users/:id as the route handles it: 400 'Cannot delete
\* yourself', else the DELETE with its cascades
AdminDeleteUserAs(caller, id) ==
  /\ requireAdmin(caller)
  /\ caller.userId # id
  /\ AdminDeleteUser(id)

\* ------------------------------------------------------------- ledger
\* view user_balances: costs subquery, SUM(amount) GROUP BY user_id
totalOwedOf(u) == SumAmounts({r \in event_costs : r.user_id = u})

totalPaidOfMutant(u) ==
  SumAmounts({p \in payments : p.user_id = u /\ p.status # "rejected"})

\* view user_balances: payments subquery, WHERE status = 'confirmed'
totalPaidOf(u) ==
  SumAmounts({p \in payments : p.user_id = u /\ p.status = "confirmed"})

\* view user_balances: one row per user, COALESCE(..., 0) on both sums
user_balances(u) ==
  [total_owed |-> totalOwedOf(u), total_paid |-> totalPaidOf(u),
   balance_remaining |-> totalOwedOf(u) - totalPaidOf(u)]

summaryMutant(u) ==
  LET balance == user_balances(u) IN
  [total_owed |-> balance.total_owed, total_paid |-> balance.total_paid,
   balance_remaining |-> IF balance.balance_remaining < 0 THEN 0
                         ELSE balance.balance_remaining]

\* GET /api/payments/summary: Number(balance?.x || 0) of the caller's row
summary(u) ==
  LET balance == user_balances(u) IN
  [total_owed |-> balance.total_owed, total_paid |-> balance.total_paid,
   balance_remaining |-> balance.balance_remaining]

\* GET /api/admin/balances: every row of the view, the sums as numbers
balances ==
  [u \in Users |->
     LET b == user_balances(u) IN
     [total_owed |-> b.total_owed, total_paid |-> b.total_paid,
      balance_remaining |-> b.balance_remaining]]

\* ------------------------------------------------------------- specifications
EventRows == [total_cost : CostInputs, split_type : SplitTypes,
              is_mandatory : BOOLEAN, exclude_groom : BOOLEAN]

\* an admin-managed event beside the one under study
CustomEvent == [total_cost |-> 12000, split_type |-> "custom",
                is_mandatory |-> FALSE, exclude_groom |-> TRUE]

\* the accounts that exist were registered from the guest list entry of
\* their number; their sessions have ended, and no call is under way
InitIdentity ==
  /\ is_admin = [u \in Users |-> users[u] # NoUser /\ GuestList[u].is_admin]
  /\ guest_list = [g \in Users |->
                     [is_admin |-> GuestList[g].is_admin,
                      is_groom |-> GuestList[g].is_groom,
                      claimed_by |-> IF users[g] # NoUser THEN g ELSE 0,
                      accounts |-> IF users[g] # NoUser THEN {g} ELSE {}]]
  /\ refresh_tokens = {}
  /\ access_tokens = {}
  /\ calls = [t \in Tasks |-> IdleCall]

\* the database after registration, and the engine after start(): every
\* participant registered (trip_status 'confirmed'), the first guest is the
\* groom or there is none yet, nobody has answered an invitation, and the rows
\* are those the start-up recalculation wrote
InitWith(firstEvents, answers) ==
  /\ \E hasGroom \in BOOLEAN :
       users = [u \in Users |->
                  [trip_status |-> "confirmed", is_groom |-> (hasGroom /\ u = 1)]]
  /\ \E first \in firstEvents :
       events = [e \in Events |-> IF e = 1 THEN first ELSE CustomEvent]
  /\ rsvps = [e \in Events |-> [u \in Users |-> IF e = 1 THEN answers ELSE "none"]]
  /\ event_costs = startupRows
  /\ payments = {}
  /\ tasks = [t \in Tasks |-> IdleTask]
  /\ settled = startupEvents
  /\ runs = [e \in Events |-> IF e \in startupEvents THEN 1 ELSE 0]
  /\ firstRows = [e \in Events |-> IF e \in startupEvents THEN computedRows(e) ELSE {}]
  /\ awaiting = {}
  /\ requests = [handled |-> 0, changed |-> 0]
  /\ InitIdentity

\* an optional event everybody has accepted
InitRace == InitWith([total_cost : RoundCosts, split_type : {"even", "fixed"},
                      is_mandatory : {FALSE}, exclude_groom : BOOLEAN], "confirmed")

InitSeq == InitWith(EventRows, "none")

InitLedger == InitWith({CustomEvent}, "none")

\* the recalculations an RSVP starts run in the background while further
\* RSVPs arrive, MaxRequests of them in all
NextRace ==
  \/ \E u \in Users, e \in StudiedEvents, status \in RsvpInputs :
       /\ requests.handled < MaxRequests
       /\ RsvpUpdate(u, e, status)
       /\ requests' = [handled |-> requests.handled + 1,
                       changed |-> requests.changed +
                                   IF rsvps[e][u] # status THEN 1 ELSE 0]
  \/ \E t \in Tasks : LoadEvent(t)
  \/ \E t \in Tasks : SelectPaying(t)
  \/ \E t \in Tasks : DeleteCosts(t)
  \/ \E t \in Tasks : SelectAll(t)
  \/ \E t \in Tasks : InsertCost(t)
  \/ \E t \in Tasks : SelectGroom(t)
  \/ \E t \in Tasks : SelectGroomRsvp(t)
  \/ \E t \in Tasks : InsertGroom(t)

SpecRace == InitRace /\ [][NextRace]_vars

\* recalculations one at a time: no request is handled while one runs
NextSeq ==
  \/ \E u \in Users, e \in StudiedEvents, status \in RsvpInputs :
       Quiescent /\ RsvpUpdate(u, e, status) /\ UNCHANGED requests
  \/ \E u \in TripUsers, status \in TripInputs :
       Quiescent /\ TripStatusUpdate(u, status)
  \/ \E e \in StudiedEvents : \E data \in EventInputs(e) :
       Quiescent /\ AdminUpdateEvent(e, data) /\ UNCHANGED requests
  \/ \E e \in StudiedEvents, costs \in CostLists :
       Quiescent /\ AdminSetCosts(e, costs) /\ UNCHANGED requests
  \/ \E t \in Tasks : LoadEvent(t)
  \/ \E t \in Tasks : SelectPaying(t)
  \/ \E t \in Tasks : DeleteCosts(t)
  \/ \E t \in Tasks : SelectAll(t)
  \/ \E t \in Tasks : InsertCost(t)
  \/ \E t \in Tasks : SelectGroom(t)
  \/ \E t \in Tasks : SelectGroomRsvp(t)
  \/ \E t \in Tasks : InsertGroom(t)

SpecSeq == InitSeq /\ [][NextSeq]_vars

\* the ledger: manual cost rows and payments
NextLedger ==
  \/ \E e \in BilledEvents, costs \in CostLists :
       AdminSetCosts(e, costs) /\ UNCHANGED requests
  \/ \E u \in BilledUsers, amount \in PaymentAmounts : ReportPayment(u, amount)
  \/ \E id \in PaymentIds, status \in PaymentStatuses : AdminUpdatePayment(id, status)

SpecLedger == InitLedger /\ [][NextLedger]_vars

\* the groom flag: set-groom requests, registrations and removals of users,
\* each statement of a handler a step of its own
InitGroom == InitWith({CustomEvent}, "none")

NextGroom ==
  \/ \E id \in Users, is_groom \in BOOLEAN : AdminSetGroom(id, is_groom)
  \/ \E t \in Tasks : UpdateGroom(t)
  \/ \E u \in Users : Register(u)
  \/ \E u \in Users : AdminDeleteUser(u)
  \/ \E t \in Tasks : SelectMandatory(t)

SpecGroom == InitGroom /\ [][NextGroom]_vars

\* the configurations an admin saves: a mandatory even split, an optional
\* fixed price, a free event and an admin-managed one
EditInputs ==
  { [total_cost |-> 12000, split_type |-> "even", is_mandatory |-> TRUE, exclude_groom |-> TRUE],
    [total_cost |-> 9925, split_type |-> "fixed", is_mandatory |-> FALSE, exclude_groom |-> TRUE],
    [total_cost |-> 0, split_type |-> "even", is_mandatory |-> FALSE, exclude_groom |-> TRUE],
    CustomEvent }

\* one event exists, the other id is still unused
InitEvents(answers) ==
  /\ \E hasGroom \in BOOLEAN :
       users = [u \in Users |->
                  [trip_status |-> "confirmed", is_groom |-> (hasGroom /\ u = 1)]]
  /\ \E first \in EditInputs :
       events = [e \in Events |-> IF e = 1 THEN first ELSE NoEvent]
  /\ rsvps = [e \in Events |-> [u \in Users |->
                IF e = 1 /\ ~events[e].is_mandatory THEN answers ELSE "none"]]
  /\ event_costs = startupRows
  /\ payments = {}
  /\ tasks = [t \in Tasks |-> IdleTask]
  /\ settled = startupEvents
  /\ runs = [e \in Events |-> IF e \in startupEvents THEN 1 ELSE 0]
  /\ firstRows = [e \in Events |-> IF e \in startupEvents THEN computedRows(e) ELSE {}]
  /\ awaiting = {}
  /\ requests = [handled |-> 0, changed |-> 0]
  /\ InitIdentity

InitEdit == InitEvents("confirmed")

Handled ==
  /\ requests.handled < MaxRequests
  /\ requests' = [requests EXCEPT !.handled = requests.handled + 1]

\* admins create, edit and delete events while the recalculations these
\* requests start run in the background, MaxRequests requests in all
NextEdit ==
  \/ \E e \in Events, data \in EditInputs :
       Handled /\ AdminCreateEvent(e, data)
  \/ \E e \in Events, data \in EditInputs :
       Handled /\ AdminUpdateEvent(e, data)
  \/ \E e \in Events : Handled /\ AdminDeleteEvent(e)
  \/ \E t \in Tasks : LoadEvent(t)
  \/ \E t \in Tasks : SelectPaying(t)
  \/ \E t \in Tasks : DeleteCosts(t)
  \/ \E t \in Tasks : SelectAll(t)
  \/ \E t \in Tasks : InsertCost(t)
  \/ \E t \in Tasks : SelectGroom(t)
  \/ \E t \in Tasks : SelectGroomRsvp(t)
  \/ \E t \in Tasks : InsertGroom(t)

SpecEdit == InitEdit /\ [][NextEdit]_vars

InitManual == InitEvents("none")

\* RSVPs, manual cost lists, edits and deletions of events while the
\* recalculations run in the background, MaxRequests requests in all
NextManual ==
  \/ \E u \in TripUsers, e \in StudiedEvents, status \in RsvpInputs :
       Handled /\ RsvpUpdate(u, e, status)
  \/ \E e \in StudiedEvents, costs \in CostLists :
       Handled /\ events[e] # NoEvent /\ AdminSetCosts(e, costs)
  \/ \E e \in StudiedEvents, data \in EditInputs :
       Handled /\ AdminUpdateEvent(e, data)
  \/ \E e \in StudiedEvents : Handled /\ AdminDeleteEvent(e)
  \/ \E t \in Tasks : LoadEvent(t)
  \/ \E t \in Tasks : SelectPaying(t)
  \/ \E t \in Tasks : DeleteCosts(t)
  \/ \E t \in Tasks : SelectAll(t)
  \/ \E t \in Tasks : InsertCost(t)
  \/ \E t \in Tasks : SelectGroom(t)
  \/ \E t \in Tasks : SelectGroomRsvp(t)
  \/ \E t \in Tasks : InsertGroom(t)

SpecManual == InitManual /\ [][NextManual]_vars

\* the mandatory events of the trip: one split evenly, and a second one at a
\* fixed price or admin-managed
TripEvents ==
  { ev \in [Events -> EventRows \cup {CustomEvent}] :
      /\ ev[1].is_mandatory /\ ev[1].split_type = "even"
      /\ ev[1].total_cost = 9925 /\ ev[1].exclude_groom
      /\ \A e \in Events \ {1} :
           \/ ev[e] = CustomEvent
           \/ /\ ev[e].is_mandatory /\ ev[e].split_type = "fixed"
              /\ ev[e].total_cost = 9925 /\ ev[e].exclude_groom }

\* the first guest of the list has an account, the others have not
\* registered yet
InitReg ==
  /\ users = [u \in Users |-> IF u = 1
                               THEN [trip_status |-> "confirmed",
                                     is_groom |-> GuestList[u].is_groom]
                               ELSE NoUser]
  /\ events \in TripEvents
  /\ rsvps = [e \in Events |-> [u \in Users |-> "none"]]
  /\ event_costs = startupRows
  /\ payments = {}
  /\ tasks = [t \in Tasks |-> IdleTask]
  /\ settled = startupEvents
  /\ runs = [e \in Events |-> IF e \in startupEvents THEN 1 ELSE 0]
  /\ firstRows = [e \in Events |-> IF e \in startupEvents THEN computedRows(e) ELSE {}]
  /\ awaiting = {}
  /\ requests = [handled |-> 0, changed |-> 0]
  /\ InitIdentity

\* guests register while the recalculations of earlier registrations run;
\* any statement of a recalculation may fail.  Every event is mandatory or
\* custom here, so no call reads the groom's RSVP.
NextReg ==
  \/ \E u \in Users : Register(u)
  \/ \E t \in Tasks : SelectMandatory(t)
  \/ \E t \in Tasks : StoreFail(t)
  \/ \E t \in Tasks : LoadEvent(t)
  \/ \E t \in Tasks : SelectPaying(t)
  \/ \E t \in Tasks : DeleteCosts(t)
  \/ \E t \in Tasks : SelectAll(t)
  \/ \E t \in Tasks : InsertCost(t)
  \/ \E t \in Tasks : SelectGroom(t)
  \/ \E t \in Tasks : InsertGroom(t)

SpecReg == InitReg /\ [][NextReg]_vars

\* every call that is under way has not read its event yet
Pending == \A t \in Tasks : Running(t) => tasks[t].pc = "loadEvent"

\* what a call finds when it loads its event: RSVPs, cost lists and edits
\* arrive between recalculations, and an admin may delete the event, or make
\* it free or custom, while a call for it is waiting to load it
NextExit ==
  \/ \E u \in TripUsers, e \in StudiedEvents, status \in RsvpInputs :
       Quiescent /\ RsvpUpdate(u, e, status) /\ UNCHANGED requests
  \/ \E e \in StudiedEvents, costs \in CostLists :
       /\ Quiescent /\ events[e] # NoEvent
       /\ AdminSetCosts(e, costs) /\ UNCHANGED requests
  \/ \E e \in StudiedEvents, data \in EditInputs :
       /\ Quiescent \/ (Pending /\ skipsEvent(data))
       /\ AdminUpdateEvent(e, data) /\ UNCHANGED requests
  \/ \E e \in StudiedEvents :
       Pending /\ AdminDeleteEvent(e) /\ UNCHANGED requests
  \/ \E t \in Tasks : LoadEvent(t)
  \/ \E t \in Tasks : SelectPaying(t)
  \/ \E t \in Tasks : DeleteCosts(t)
  \/ \E t \in Tasks : SelectAll(t)
  \/ \E t \in Tasks : InsertCost(t)
  \/ \E t \in Tasks : SelectGroom(t)
  \/ \E t \in Tasks : SelectGroomRsvp(t)
  \/ \E t \in Tasks : InsertGroom(t)

SpecExit == InitManual /\ [][NextExit]_vars

\* rows left in event_costs by an earlier run of the process: hand-edited
\* rows and what remains of interrupted recalculations
PriorRows ==
  SUBSET { [event_id |-> e, user_id |-> u, amount |-> a, notes |-> NoNote] :
           e \in BilledEvents, u \in BilledUsers, a \in ManualAmounts }

\* the process starts on a database in any state: some participants have
\* declined the trip, some have answered the invitation to the first event,
\* and event_costs holds whatever was left behind
InitStart ==
  /\ \E hasGroom \in BOOLEAN, declined \in SUBSET TripUsers :
       users = [u \in Users |->
                  [trip_status |-> IF u \in declined THEN "declined" ELSE "confirmed",
                   is_groom |-> (hasGroom /\ u = 1)]]
  /\ \E first \in EventRows, other \in EditInputs :
       events = [e \in Events |-> IF e = 1 THEN first ELSE other]
  /\ \E answers \in RsvpInputs :
       rsvps = [e \in Events |-> [u \in Users |->
                  IF u \in BilledUsers THEN answers ELSE "none"]]
  /\ event_costs \in PriorRows
  /\ payments = {}
  /\ tasks = [t \in Tasks |-> IF t = 1 THEN [IdleTask EXCEPT !.pc = "selectStartup"]
                                        ELSE IdleTask]
  /\ settled = {}
  /\ runs = [e \in Events |-> 0]
  /\ firstRows = [e \in Events |-> {}]
  /\ awaiting = {e \in startupEvents : RowsOf(e) # computedRows(e)}
  /\ requests = [handled |-> 0, changed |-> 0]
  /\ InitIdentity

\* the server listens once the start sequence has returned
Listening == tasks[1].pc = "done"

\* the start sequence: one awaited recalculation after the other; a failed
\* statement ends the process before it listens
NextStart ==
  \/ \E t \in Tasks : SelectStartup(t)
  \/ \E t \in Tasks : StoreFail(t)
  \/ \E t \in Tasks : LoadEvent(t)
  \/ \E t \in Tasks : SelectPaying(t)
  \/ \E t \in Tasks : DeleteCosts(t)
  \/ \E t \in Tasks : SelectAll(t)
  \/ \E t \in Tasks : InsertCost(t)
  \/ \E t \in Tasks : SelectGroom(t)
  \/ \E t \in Tasks : SelectGroomRsvp(t)
  \/ \E t \in Tasks : InsertGroom(t)

SpecStart == InitStart /\ [][NextStart]_vars

\* the roster changes, one request at a time: accounts are deleted and
\* created again, the groom flag moves, invitations are answered
NextRoster ==
  \/ \E u \in Users : Quiescent /\ AdminDeleteUser(u)
  \/ \E id \in Users, is_groom \in BOOLEAN :
       Quiescent /\ AdminSetGroom(id, is_groom)
  \/ \E t \in Tasks : UpdateGroom(t)
  \/ \E u \in Users : Quiescent /\ Register(u)
  \/ \E u \in TripUsers, e \in StudiedEvents, status \in RsvpInputs :
       /\ Quiescent /\ users[u] # NoUser
       /\ RsvpUpdate(u, e, status) /\ UNCHANGED requests
  \/ \E t \in Tasks : SelectMandatory(t)
  \/ \E t \in Tasks : LoadEvent(t)
  \/ \E t \in Tasks : SelectPaying(t)
  \/ \E t \in Tasks : DeleteCosts(t)
  \/ \E t \in Tasks : SelectAll(t)
  \/ \E t \in Tasks : InsertCost(t)
  \/ \E t \in Tasks : SelectGroom(t)
  \/ \E t \in Tasks : SelectGroomRsvp(t)
  \/ \E t \in Tasks : InsertGroom(t)

SpecRoster == InitSeq /\ [][NextRoster]_vars

\* the admin recalculates an event by hand between the recalculations that
\* RSVPs and saves of the event start; trip statuses change as well
NextCalc ==
  \/ \E e \in StudiedEvents :
       Quiescent /\ AdminCalculateCosts(e) /\ UNCHANGED requests
  \/ \E u \in Users, e \in StudiedEvents, status \in RsvpInputs :
       Quiescent /\ RsvpUpdate(u, e, status) /\ UNCHANGED requests
  \/ \E u \in TripUsers, status \in TripInputs :
       Quiescent /\ TripStatusUpdate(u, status)
  \/ \E e \in StudiedEvents : \E data \in EventInputs(e) :
       Quiescent /\ AdminUpdateEvent(e, data) /\ UNCHANGED requests
  \/ \E t \in Tasks : LoadEvent(t)
  \/ \E t \in Tasks : SelectPaying(t)
  \/ \E t \in Tasks : DeleteCosts(t)
  \/ \E t \in Tasks : SelectAll(t)
  \/ \E t \in Tasks : InsertCost(t)
  \/ \E t \in Tasks : SelectGroom(t)
  \/ \E t \in Tasks : SelectGroomRsvp(t)
  \/ \E t \in Tasks : InsertGroom(t)

SpecCalc == InitSeq /\ [][NextCalc]_vars

\* manual cost lists of every shape, for events and participants that may
\* have been deleted
NextOverride ==
  \/ \E e \in BilledEvents, costs \in CostArrays :
       AdminSetCostsArray(e, costs) /\ UNCHANGED requests
  \/ \E u \in BilledUsers : AdminDeleteUser(u)
  \/ \E e \in BilledEvents : AdminDeleteEvent(e) /\ UNCHANGED requests

SpecOverride == InitLedger /\ [][NextOverride]_vars

\* RSVPs whose recalculation can lose the database at any statement
NextFail ==
  \/ \E u \in Users, e \in StudiedEvents, status \in RsvpInputs :
       Quiescent /\ RsvpUpdate(u, e, status) /\ UNCHANGED requests
  \/ \E t \in Tasks : StoreFail(t)
  \/ \E t \in Tasks : LoadEvent(t)
  \/ \E t \in Tasks : SelectPaying(t)
  \/ \E t \in Tasks : DeleteCosts(t)
  \/ \E t \in Tasks : SelectAll(t)
  \/ \E t \in Tasks : InsertCost(t)
  \/ \E t \in Tasks : SelectGroom(t)
  \/ \E t \in Tasks : SelectGroomRsvp(t)
  \/ \E t \in Tasks : InsertGroom(t)

SpecFail == InitSeq /\ [][NextFail]_vars

\* ------------------------------------------------------------- properties
Abs(x) == IF x < 0 THEN -x ELSE x

\* the payers of event e as the engine reads them now
PayersOf(e) == payingAttendees(e, events[e])

\* the rows of event e that belong to its payers
PayerRows(e) == {r \in RowsOf(e) : r.user_id \in PayersOf(e)}

\* events whose rows a finished recalculation wrote, nothing changed since
EvenSettled ==
  {e \in settled : /\ events[e].split_type = "even"
                   /\ events[e].total_cost > 0
                   /\ PayersOf(e) # {}}

FixedAbsorbing ==
  {e \in settled : /\ events[e].split_type = "fixed"
                   /\ events[e].total_cost > 0
                   /\ events[e].exclude_groom
                   /\ \E g \in allAttendees(e, events[e]) : users[g].is_groom
                   /\ PayersOf(e) # {}}

AutoEvents ==
  {e \in Events : ~skipsEvent(events[e])}

\* the (participant, amount) pairs of a set of rows
Charges(rows) == {<<r.user_id, r.amount>> : r \in rows}

\* C3: when a participant's trip status was changed through the trip-status
\* update, every mandatory even/fixed event with a cost is recalculated, so
\* that whenever no recalculation is running the rows of such an event are
\* the formula's result for the new confirmed set.
C3_TripStatusReactivity ==
  Quiescent =>
    \A e \in awaiting \cap AutoEvents :
      events[e].is_mandatory => Charges(RowsOf(e)) = Charges(computedRows(e))

\* C4: for an optional even-split event with total T > 0 and n >= 2 payers who
\* each hold T/n, when one payer's RSVP is changed away from confirmed, the
\* recalculation this starts leaves, when it completes and the payers are
\* still the remaining ones, every remaining payer with T/(n-1) and the
\* departed participant without a row.
C4_RsvpReactivity ==
  [][\A t \in Tasks :
       (tasks[t].departed # 0 /\ Running(t) /\ tasks'[t].pc = "done") =>
         LET e == tasks[t].eventId
             T == events[e].total_cost
             rem == tasks[t].remaining IN
         (events[e] = tasks[t].event /\ PayersOf(e) = rem) =>
           /\ \A p \in rem :
                \E r \in event_costs' :
                  r.event_id = e /\ r.user_id = p /\ r.amount * Cardinality(rem) = T
           /\ ~\E r \in event_costs' :
                r.event_id = e /\ r.user_id = tasks[t].departed]_vars

\* C5: a recalculation that follows a completed one of the same event, with
\* no change to attendance, groom flag or event configuration in between,
\* completes too and leaves the same rows (participant, amount, note).
C5_Idempotence ==
  \A e \in Events :
    runs[e] >= 1 =>
      /\ \A t \in Tasks : ~(tasks[t].pc = "failed" /\ tasks[t].eventId = e)
      /\ (e \in settled /\ runs[e] = 2) => RowsOf(e) = firstRows[e]

\* an event with rows has been recalculated twice in a row, by steps
C5_Witness ==
  \E e \in settled :
    /\ runs[e] = 2
    /\ Cardinality(firstRows[e]) >= 2
    /\ \E t \in Tasks : tasks[t].pc = "done" /\ tasks[t].eventId = e

\* C6: every step of a recalculation of a custom event returns at once and
\* leaves every table as it is.
C6_CustomExemption ==
  [][\A t \in Tasks :
       (/\ Running(t)
        /\ tasks'[t] # tasks[t]
        /\ events[tasks[t].eventId].split_type = "custom") =>
         (tasks'[t].pc = "done" /\ store' = store)]_vars

\* a recalculation of a custom event that holds manual rows has returned,
\* after participants answered the invitation
C6_Witness ==
  \E t \in Tasks :
    /\ tasks[t].pc = "done"
    /\ events[tasks[t].eventId].split_type = "custom"
    /\ events[tasks[t].eventId].total_cost > 0
    /\ RowsOf(tasks[t].eventId) # {}
    /\ \E u \in Users : rsvps[tasks[t].eventId][u] = "confirmed"
    /\ \E u \in Users : rsvps[tasks[t].eventId][u] = "declined"

\* what participant u owes for event e: the amount of u's row, if any
OwedFor(e, u) ==
  LET rows == {r \in event_costs : r.event_id = e /\ r.user_id = u} IN
  IF rows = {} THEN 0 ELSE (CHOOSE r \in rows : TRUE).amount

\* what payment id adds to participant u's paid total
PaidBy(id, u) ==
  LET ps == {p \in payments : p.id = id /\ p.user_id = u /\ p.status = "confirmed"} IN
  IF ps = {} THEN 0 ELSE (CHOOSE p \in ps : TRUE).amount

RECURSIVE SumOwed(_, _)
SumOwed(u, E) ==
  IF E = {} THEN 0
  ELSE LET e == CHOOSE x \in E : TRUE IN OwedFor(e, u) + SumOwed(u, E \ {e})

RECURSIVE SumPaid(_, _)
SumPaid(u, I) ==
  IF I = {} THEN 0
  ELSE LET id == CHOOSE x \in I : TRUE IN PaidBy(id, u) + SumPaid(u, I \ {id})

\* C7: for every participant the balance read (the participant's summary and
\* the admin's list) returns totalOwed = the sum of the participant's cost
\* rows over all events, totalPaid = the sum of the participant's confirmed
\* payments, and remaining = totalOwed - totalPaid, negative when paid
\* exceeds owed.
C7_BalanceConsistency ==
  \A u \in Users :
    LET O == SumOwed(u, Events)
        P == SumPaid(u, PaymentIds)
        expected == [total_owed |-> O, total_paid |-> P, balance_remaining |-> O - P] IN
    summary(u) = expected /\ balances[u] = expected

\* a participant owes for two events and has paid more than that
C7_Witness ==
  \E u \in Users :
    /\ Cardinality({r \in event_costs : r.user_id = u}) = 2
    /\ summary(u).total_owed > 0
    /\ summary(u).total_paid > summary(u).total_owed
    /\ summary(u).balance_remaining < 0

\* C8: reporting a payment creates it pending and changes nobody's totalPaid;
\* a change of a payment's status changes its participant's totalPaid by the
\* payment's amount when the status becomes confirmed, by minus the amount
\* when it stops being confirmed, and nobody else's.
C8_OnlyConfirmedCount ==
  [][payments' # payments =>
       \A id \in PaymentIds :
         LET old == {p \in payments : p.id = id}
             new == {p \in payments' : p.id = id}
             counted(p, u) == IF p.user_id = u /\ p.status = "confirmed"
                              THEN p.amount ELSE 0 IN
         /\ (old = {} /\ new # {}) =>
              /\ \A p \in new : p.status = "pending"
              /\ \A u \in Users : (summary(u).total_paid)' = summary(u).total_paid
         /\ (old # {} /\ new # old) =>
              \A p \in old, q \in new, u \in Users :
                (summary(u).total_paid)' - summary(u).total_paid
                  = counted(q, u) - counted(p, u)]_vars

\* a participant has one confirmed and one rejected payment, and only the
\* confirmed one is counted
C8_Witness ==
  \E p \in payments, q \in payments :
    /\ p.user_id = q.user_id
    /\ p.status = "confirmed" /\ q.status = "rejected"
    /\ summary(p.user_id).total_paid = p.amount

\* C9: while a recalculation of an event runs, the event's rows are either
\* the complete rows from before it or the complete newly computed rows.
C9_AtomicReplacement ==
  \A t \in Tasks :
    Running(t) =>
      LET e == tasks[t].eventId IN
      RowsOf(e) = tasks[t].before \/ RowsOf(e) = computedRows(e)

\* C10: once the recalculations that two or more RSVP changes of an event
\* started have all finished (completed or failed), the event's rows are the
\* formula's result for the latest attendance.
C10_ConcurrentConverge ==
  (Quiescent /\ requests.changed >= 2) =>
    \A e \in AutoEvents : Charges(RowsOf(e)) = Charges(computedRows(e))

\* the attending set of event e: trip status confirmed for a mandatory
\* event, RSVP confirmed for an optional one
Attending(e) ==
  IF events[e].is_mandatory
  THEN {u \in Users : users[u].trip_status = "confirmed"}
  ELSE {u \in Users : rsvps[e][u] = "confirmed"}

\* the participants excluded from paying for event e: the groom, when the
\* event excludes him
Excluded(e) ==
  IF events[e].exclude_groom THEN {u \in Users : users[u].is_groom} ELSE {}

\* the payers of event e: the attending participants that are not excluded
ResolvedPayers(e) == Attending(e) \ Excluded(e)

\* C11: after a completed recalculation of an even/fixed event with a cost
\* there is exactly one row for each payer, and every other row of the event
\* is the excluded groom's $0 row.
C11_RowSet ==
  \A e \in settled \cap AutoEvents :
    /\ \A p \in ResolvedPayers(e) :
         Cardinality({r \in RowsOf(e) : r.user_id = p}) = 1
    /\ \A r \in RowsOf(e) :
         r.user_id \notin ResolvedPayers(e) =>
           (r.user_id \in Excluded(e) /\ r.amount = 0)

\* a recalculation by steps has left the payer with one row, the groom
\* with his $0 row and a participant who declined without a row
C11_Witness ==
  \E e \in settled \cap AutoEvents :
    /\ \E t \in Tasks : tasks[t].pc = "done" /\ tasks[t].eventId = e
    /\ ~events[e].is_mandatory
    /\ Cardinality(ResolvedPayers(e)) = 1
    /\ \E u \in Users : rsvps[e][u] = "declined" /\ ~HasRow(e, u)
    /\ \E r \in RowsOf(e) : r.user_id \in Excluded(e) /\ r.amount = 0

\* C12: after a completed recalculation of an even/fixed event that excludes
\* the groom and has at least one payer, the groom has a $0 row if and only
\* if the groom is in the attending set.
C12_GroomRowIffAttending ==
  \A e \in settled \cap AutoEvents :
    (events[e].exclude_groom /\ ResolvedPayers(e) # {}) =>
      \A g \in Users :
        users[g].is_groom =>
          ((\E r \in RowsOf(e) : r.user_id = g /\ r.amount = 0) <=> g \in Attending(e))

\* C15: after a completed recalculation of a fixed-rate event with rate
\* R > 0 where the groom is not both excluded and attending, every payer has
\* one row and its amount is exactly R.
C15_FixedFlat ==
  \A e \in settled :
    (/\ events[e].split_type = "fixed"
     /\ events[e].total_cost > 0
     /\ Excluded(e) \cap Attending(e) = {}) =>
      \A p \in ResolvedPayers(e) :
        /\ Cardinality({r \in RowsOf(e) : r.user_id = p}) = 1
        /\ \A r \in RowsOf(e) : r.user_id = p => r.amount = events[e].total_cost

\* a recalculation by steps has charged two payers the flat rate of an event
\* that excludes the groom, who does not attend
C15_Witness ==
  \E e \in settled :
    /\ \E t \in Tasks : tasks[t].pc = "done" /\ tasks[t].eventId = e
    /\ events[e].split_type = "fixed" /\ events[e].total_cost > 0
    /\ Excluded(e) # {} /\ Excluded(e) \cap Attending(e) = {}
    /\ Cardinality(ResolvedPayers(e)) = 2
    /\ \A p \in ResolvedPayers(e) :
         \E r \in RowsOf(e) : r.user_id = p /\ r.amount = events[e].total_cost

\* C16: a recalculation of an even/fixed event with a cost whose payer set is
\* empty ends normally and leaves the event without any row.
C16_EmptyPayersClear ==
  [][\A t \in Tasks :
       LET e == tasks[t].eventId IN
       (/\ Running(t)
        /\ tasks'[t].pc \in {"done", "failed"}
        /\ e \in AutoEvents
        /\ ResolvedPayers(e) = {}) =>
         (tasks'[t].pc = "done" /\ RowsOf(e)' = {})]_vars

\* a recalculation has ended for an event nobody pays for, though the
\* excluded groom attends it: the event has no row, not even the groom's
C16_Witness ==
  \E t \in Tasks :
    LET e == tasks[t].eventId IN
    /\ tasks[t].pc = "done"
    /\ e \in settled \cap AutoEvents
    /\ ResolvedPayers(e) = {}
    /\ Excluded(e) \cap Attending(e) # {}
    /\ \E u \in Users : rsvps[e][u] = "declined"
    /\ RowsOf(e) = {}

\* C13: at most one participant is the groom, whatever set-groom requests
\* and registrations have run and however their statements interleave.
C13_GroomSingleton == Cardinality({u \in Users : users[u].is_groom}) <= 1

C20_ConfigurationTrigger ==
  (Quiescent /\ \A t \in Tasks : tasks[t].pc # "failed") =>
    \A e \in AutoEvents : Charges(RowsOf(e)) = Charges(computedRows(e))

\* the call of task t is about to load an event that is gone or costs nothing
AtEarlyExit(t) ==
  /\ tasks[t].pc = "loadEvent"
  /\ events[tasks[t].eventId] = NoEvent \/ events[tasks[t].eventId].total_cost = 0

\* C17: when recalculateEventCosts finds no event with the id it was called
\* with, or an event whose total cost is 0, its step returns normally and
\* leaves every cost row as it was.
C17_EarlyExit ==
  [][\A t \in Tasks :
       (AtEarlyExit(t) /\ tasks'[t] # tasks[t])
         => /\ tasks'[t].pc = "done"
            /\ event_costs' = event_costs]_vars

\* a call has returned for a free event that still has cost rows
C17_Witness ==
  \E t \in Tasks :
    /\ tasks[t].pc = "done"
    /\ events[tasks[t].eventId] # NoEvent
    /\ events[tasks[t].eventId].total_cost = 0
    /\ events[tasks[t].eventId].split_type # "custom"
    /\ RowsOf(tasks[t].eventId) # {}

\* a call has returned for an event that was deleted before it was loaded
C17_MissingEventReturns ==
  \E t \in Tasks :
    /\ tasks[t].pc = "done"
    /\ tasks[t].eventId \in Events
    /\ events[tasks[t].eventId] = NoEvent

\* C18: when an automatic recalculation of an even/fixed event with a cost
\* completes, no row that the admin's cost list wrote for the event is left:
\* its rows are the formula's rows; and no step of a recalculation changes
\* the rows of a custom event that holds rows of the admin's cost list.
C18_ManualOverrideLifetime ==
  [][\A t \in Tasks :
       LET e == tasks[t].eventId IN
       /\ (Running(t) /\ tasks'[t].pc = "done" /\ e \in AutoEvents)
            => \A r \in event_costs' : r.event_id = e => r.notes # NoNote
       /\ (Running(t) /\ tasks'[t] # tasks[t] /\ e \in Events
             /\ events[e].split_type = "custom"
             /\ \E r \in RowsOf(e) : r.notes = NoNote)
            => event_costs' = event_costs]_vars

\* C19: after registrations, once every recalculation they started has
\* completed, every mandatory even/fixed event with a cost has the formula's
\* rows for the confirmed participants, the new ones included; and the
\* registration's answer is success whatever became of its recalculation.
C19_RegistrationTrigger ==
  /\ \A t \in Tasks : tasks[t].pc # "idle" => tasks[t].reply = "ok"
  /\ (Quiescent /\ \A t \in Tasks : tasks[t].pc # "failed") =>
       \A e \in mandatoryEvents : Charges(RowsOf(e)) = Charges(computedRows(e))

C22_FailedGroomAssignment ==
  [][\A t \in Tasks :
       (tasks[t].pc = "updateGroom" /\ ~tasks[t].known /\ tasks'[t].pc = "failed")
         => \A g \in tasks[t].grooms :
              users[g] # NoUser => users'[g].is_groom]_vars

\* C23: when an admin's edit sets the cost of an even/fixed event that has
\* cost rows to 0 and no recalculation is under way afterwards, the event has
\* no cost rows left and adds nothing to what anybody owes.
C23_ZeroCostNoCharges ==
  [][\A e \in Events :
       (/\ e \in AutoEvents /\ RowsOf(e) # {}
        /\ events'[e] # NoEvent /\ events'[e].total_cost = 0
        /\ events'[e].split_type \in {"even", "fixed"}
        /\ \A t \in Tasks : tasks'[t].pc \in {"idle", "done", "failed"})
         => /\ {r \in event_costs' : r.event_id = e} = {}
            /\ \A u \in Users : totalOwedOf(u)' = totalOwedOf(u) - OwedFor(e, u)]_vars

\* C24: when an admin deletes a participant who was a payer of an even-split
\* event with total T > 0 whose payers' rows summed to T (to the cent of each
\* row), other payers remain and no recalculation is under way afterwards,
\* the remaining payers' rows of that event sum to T again.
C24_DeletionKeepsTotal ==
  [][\A u \in Users, e \in Events :
       (/\ users[u] # NoUser /\ users'[u] = NoUser
        /\ e \in AutoEvents /\ events[e].split_type = "even"
        /\ u \in PayersOf(e) /\ PayersOf(e) # {u}
        /\ Abs(SumAmounts(PayerRows(e)) - events[e].total_cost)
             <= Cardinality(PayersOf(e))
        /\ \A t \in Tasks : tasks'[t].pc \in {"idle", "done", "failed"})
         => Abs(SumAmounts({r \in event_costs' :
                              r.event_id = e /\ r.user_id \in PayersOf(e) \ {u}})
                - events[e].total_cost)
              <= Cardinality(PayersOf(e) \ {u})]_vars

\* C25: when a set-groom request has moved the groom flag from participant A
\* to participant B and no recalculation is under way afterwards, every
\* even/fixed event with a cost that excludes the groom charges B nothing and
\* charges A, when A attends it, more than nothing.
C25_GroomReassignment ==
  [][\A t \in Tasks :
       (/\ tasks[t].pc = "updateGroom" /\ tasks'[t].pc = "done"
        /\ \A x \in Tasks : tasks'[x].pc \in {"idle", "done", "failed"})
         => \A A \in tasks[t].grooms \ {tasks[t].groom} :
              \A e \in AutoEvents :
                events[e].exclude_groom =>
                  /\ \A r \in event_costs' :
                       (r.event_id = e /\ r.user_id = tasks[t].groom) => r.amount = 0
                  /\ A \in Attending(e) =>
                       \E r \in event_costs' :
                         r.event_id = e /\ r.user_id = A /\ r.amount > 0]_vars

\* C26: for an even/fixed event with a cost and at least one payer, optional
\* or mandatory, the admin's auto-calculate request leaves the same
\* (participant, amount) rows as recalculateEventCosts leaves for that event
\* in the same state.
C26_PathsAgree ==
  [][\A e \in AutoEvents :
       (/\ PayersOf(e) # {}
        /\ event_costs' # event_costs
        /\ \A t \in Tasks : ~Running(t) /\ tasks'[t] = tasks[t])
         => Charges({r \in event_costs' : r.event_id = e}) = Charges(computedRows(e))]_vars

\* C27: when a set-costs request ends with an error, the cost rows are the
\* same as before the request.
C27_OverrideAllOrNothing ==
  [][\A t \in Tasks :
       (tasks'[t] # tasks[t] /\ tasks'[t].pc = "failed" /\ tasks'[t].reply = "error")
         => event_costs' = event_costs]_vars

\* ------------------------------------------------------------- sessions
\* participants log in, refresh and log out; refresh requests overlap
NextAuth ==
  \/ \E u \in Users : Login(u)
  \/ \E token \in TokenIds : Refresh(token)
  \/ \E t \in Tasks : RefreshSelectUser(t)
  \/ \E t \in Tasks : RefreshRevoke(t)
  \/ \E t \in Tasks : RefreshGenerate(t)
  \/ \E token \in TokenIds : Logout(token)
  \/ \E token \in TokenIds : ExpireToken(token)

SpecAuth == InitLedger /\ [][NextAuth]_vars

\* C28: a refresh token is single-use: no refresh token has been exchanged
\* for a new token pair more than once, also when refresh requests that
\* present the same token overlap
C28_SingleUseRefresh ==
  \A r1, r2 \in refresh_tokens :
    (r1.parent # 0 /\ r1.parent = r2.parent) => r1 = r2

\* C28 variant kept for the record: a request that arrives after the token
\* was revoked, by a refresh or by a logout, is rejected
C28_RevokedIsRejected ==
  [][\A token \in TokenIds :
       ((\E r \in refresh_tokens : r.id = token /\ r.revoked) /\ Refresh(token))
         => calls'[NextCall].pc = "failed"]_vars

\* ------------------------------------------------------------- registration
\* registration requests overlap; a new one arrives when no recalculation
\* is running
NextClaim ==
  \/ \E g \in Users : Quiescent /\ RegisterMatch(g)
  \/ \E t \in Tasks : RegisterInsert(t)
  \/ \E t \in Tasks : RegisterLink(t)
  \/ \E t \in Tasks : RegisterGenerate(t)
  \/ \E t \in Tasks : SelectMandatory(t)
  \/ \E t \in Tasks : LoadEvent(t)
  \/ \E t \in Tasks : SelectPaying(t)
  \/ \E t \in Tasks : DeleteCosts(t)
  \/ \E t \in Tasks : SelectAll(t)
  \/ \E t \in Tasks : InsertCost(t)
  \/ \E t \in Tasks : SelectGroom(t)
  \/ \E t \in Tasks : InsertGroom(t)

SpecClaim == InitReg /\ [][NextClaim]_vars

\* C29: a guest list entry is claimed at most once: for every entry at most
\* one participant has been created from it, however the registration
\* requests that match it interleave
C29_ClaimedAtMostOnce ==
  \A g \in Users : Cardinality(guest_list[g].accounts) <= 1

\* C29 variant kept for the record: a registration that matches an entry
\* already claimed is rejected and creates no participant
C29_ClaimedIsRejected ==
  [][\A g \in Users :
       (guest_list[g].claimed_by # 0 /\ RegisterMatch(g))
         => (calls'[NextCall].pc = "failed" /\ users' = users)]_vars
\* ------------------------------------------------------------- admins
\* participants log in, and admins promote, demote and delete participants
NextAdmin ==
  \/ \E u \in Users : Login(u)
  \/ \E caller \in access_tokens : ExpireAccess(caller)
  \/ \E caller \in access_tokens, id \in Users, flag \in BOOLEAN :
       AdminSetAdmin(caller, id, flag)
  \/ \E caller \in access_tokens, id \in Users : AdminDeleteUserAs(caller, id)

SpecAdmin == InitLedger /\ [][NextAdmin]_vars

\* C30: at least one admin always remains: from a state with an admin, the
\* admin operations toggle-admin and delete-user never lead to a state in
\* which no participant has is_admin = true
C30_AdminRemains ==
  \E u \in Users : users[u] # NoUser /\ is_admin[u]

====
